---- MODULE Spec2Model ----
(***************************************************************************)
(* Folder comparison tool (scripts/folder_compare.py): two directory trees *)
(* are scanned into path -> (size, quick hash) mappings, the mappings are  *)
(* reconciled into missing / extra / mismatched sets, and the unpaired     *)
(* files are optionally moved or deleted.                                  *)
(*                                                                         *)
(* A relative path is the sequence of its components (<<"d","x">> is d/x), *)
(* a file's content is a sequence of bytes, a tree is a record             *)
(* [files: path -> content, dirs: set of directory paths].                 *)
(***************************************************************************)
EXTENDS FiniteSets, Integers, Sequences, TLC

\* ------------------------------------------------------------------ bounds
\* Longest file content, in bytes.
MaxFileLen == 3
\* Most regular files the two trees hold together at the start of a run.
MaxFiles == 3
\* The chunk read from each end of a file (8192 in the code), scaled so that
\* files longer than one chunk, and longer than two, fit in MaxFileLen.
chunk_size == 1

Bytes == {0, 1}
Contents == UNION {[1..n -> Bytes] : n \in 0..MaxFileLen}
\* One-byte files: the contents the action runs draw from.
SmallContents == {c \in Contents : Len(c) = 1}

\* ------------------------------------------------------------------ paths
DestArg == "arch"
PromptDefault == "unpaired_files"
\* What Prompt.ask can hand back: the default, or the blank a user typed.
PromptAnswers == {"", PromptDefault}

\* Files the trees may hold at the start: a top-level file, a file of the
\* same name in a subdirectory, and files left by an earlier move run.
UserPaths ==
    { <<"x">>, <<"d", "x">>,
      <<DestArg, "missing_in_target", "x">>,
      <<DestArg, "extra_in_target", "x">> }

Ancestors(p) == {SubSeq(p, 1, k) : k \in 1..(Len(p) - 1)}
Name(p) == p[Len(p)]
Join(dir, name) == Append(dir, name)

EmptyFiles == [p \in {} |-> <<>>]
TreeOf(files) == [files |-> files, dirs |-> UNION {Ancestors(p) : p \in DOMAIN files}]

IsFile(tree, p) == p \in DOMAIN tree.files
IsDir(tree, p) == p \in tree.dirs
Exists(tree, p) == IsFile(tree, p) \/ IsDir(tree, p)

\* ------------------------------------------------------- calculate_file_hash
NoHash == <<"">>
\* hashlib.md5 over the bytes fed to it: distinct inputs give distinct
\* digests (MD5 collisions are not modelled).
Md5(data) == <<"md5", data>>

quick_hash_first_only(content) ==
    Md5(SubSeq(content, 1, IF Len(content) < chunk_size THEN Len(content) ELSE chunk_size))

\* lines 40-54: the first chunk, and for a file longer than one chunk the
\* last chunk as well, fed to one MD5.
quick_hash(content) ==
    LET size == Len(content)
        first == SubSeq(content, 1, IF size < chunk_size THEN size ELSE chunk_size)
        last == IF size > chunk_size
                THEN SubSeq(content, size - chunk_size + 1, size)
                ELSE <<>>
    IN Md5(first \o last)

\* lines 33-54 on a tree at rest.
calculate_file_hash(tree, p) ==
    IF ~IsFile(tree, p) THEN NoHash ELSE quick_hash(tree.files[p])

\* ------------------------------------------------------------ get_files_info
fingerprint_hash_only(tree, p) == <<0, calculate_file_hash(tree, p)>>

\* lines 63-65: (size, quick_hash) of one regular file.
fingerprint(tree, p) == <<Len(tree.files[p]), calculate_file_hash(tree, p)>>

\* lines 56-67 on a tree nobody else touches: every regular file below the
\* root, keyed by its relative path.
get_files_info(tree) == [p \in DOMAIN tree.files |-> fingerprint(tree, p)]

\* ------------------------------------------------------------- reconciliation
missing_of_no_difference(src, tgt) == DOMAIN src

\* line 199
missing_of(src, tgt) == DOMAIN src \ DOMAIN tgt

extra_of_no_difference(src, tgt) == DOMAIN tgt

\* line 200
extra_of(src, tgt) == DOMAIN tgt \ DOMAIN src

\* line 201
common_of(src, tgt) == DOMAIN src \cap DOMAIN tgt

mismatches_unconditional(src, tgt, check) ==
    {f \in common_of(src, tgt) : src[f] # tgt[f]}

\* lines 204-208
mismatches_of(src, tgt, check) ==
    IF check THEN {f \in common_of(src, tgt) : src[f] # tgt[f]} ELSE {}

\* ------------------------------------------------------------------- render
\* The names the model uses, in the order Python's str comparison gives them.
NameOrder == <<"arch", "d", "extra_in_target", "missing_in_target", "unpaired_files", "x">>
NameRank(n) == CHOOSE i \in 1..Len(NameOrder) : NameOrder[i] = n

\* str(rel_path) compared as sorted() compares strings: component by
\* component, a proper prefix first ("/" sorts below every name character).
RECURSIVE PathLess(_, _)
PathLess(p, q) ==
    IF p = <<>> THEN q # <<>>
    ELSE IF q = <<>> THEN FALSE
    ELSE IF Head(p) # Head(q) THEN NameRank(Head(p)) < NameRank(Head(q))
    ELSE PathLess(Tail(p), Tail(q))

RECURSIVE sorted_descending(_)
sorted_descending(S) ==
    IF S = {} THEN <<>>
    ELSE LET m == CHOOSE m \in S : \A o \in S \ {m} : PathLess(o, m)
         IN <<m>> \o sorted_descending(S \ {m})

\* sorted() at lines 219, 226 and 233
RECURSIVE sorted(_)
sorted(S) ==
    IF S = {} THEN <<>>
    ELSE LET m == CHOOSE m \in S : \A o \in S \ {m} : PathLess(m, o)
         IN <<m>> \o sorted(S \ {m})

\* lines 216-238: one row per non-empty category, else the status row.
render(missing, extra, mismatches, check) ==
    (IF missing # {}
     THEN << <<"Missing in Target", sorted(missing), Cardinality(missing)>> >>
     ELSE <<>>)
    \o
    (IF extra # {}
     THEN << <<"Extra in Target", sorted(extra), Cardinality(extra)>> >>
     ELSE <<>>)
    \o
    (IF check /\ mismatches # {}
     THEN << <<"Content Mismatches", sorted(mismatches), Cardinality(mismatches)>> >>
     ELSE <<>>)
    \o
    (IF ~(missing # {} \/ extra # {} \/ (check /\ mismatches # {}))
     THEN << <<"Status", <<>>, 0>> >>
     ELSE <<>>)

\* ------------------------------------------------------------ file operations
\* Path.mkdir(parents=True, exist_ok=True) raises when a component of the
\* path is a regular file.
mkdir_raises(tree, dir) == \E a \in Ancestors(dir) \cup {dir} : IsFile(tree, a)

mkdir_leaf_only(tree, dir) == [tree EXCEPT !.dirs = @ \cup {dir}]

\* lines 91-92: the directory and every missing parent.
mkdir_parents(tree, dir) == [tree EXCEPT !.dirs = @ \cup Ancestors(dir) \cup {dir}]

\* shutil.move: into dst when dst is a directory, onto dst otherwise.
real_dst(tree, src, dst) == IF IsDir(tree, dst) THEN Join(dst, Name(src)) ELSE dst

\* shutil.move refuses a destination directory that already holds the name.
move_raises(tree, src, dst) == IsDir(tree, dst) /\ Exists(tree, Join(dst, Name(src)))

shutil_move_copy(tree, src, dst) ==
    LET to == real_dst(tree, src, dst)
    IN [tree EXCEPT !.files =
            [p \in DOMAIN tree.files \cup {to} |-> IF p = to THEN tree.files[src] ELSE tree.files[p]]]

\* line 102 / 111: os.rename of a regular file; an existing file at the
\* destination is replaced, and a rename onto itself changes nothing.
shutil_move(tree, src, dst) ==
    LET to == real_dst(tree, src, dst)
    IN IF to = src THEN tree
       ELSE [tree EXCEPT !.files =
               [p \in (DOMAIN tree.files \ {src}) \cup {to} |->
                   IF p = to THEN tree.files[src] ELSE tree.files[p]]]

unlink_keep(tree, p) == tree

\* line 128 / 136: Path.unlink of a regular file.
unlink(tree, p) == [tree EXCEPT !.files = [q \in DOMAIN tree.files \ {p} |-> tree.files[q]]]

\* Path.unlink raises on a directory.
unlink_raises(tree, p) == IsDir(tree, p)

\* line 88
source_unpaired_dir(dest) == <<dest, "missing_in_target">>

target_unpaired_dir_outside_dest(dest) == <<"extra_in_target">>

\* line 89
target_unpaired_dir(dest) == <<dest, "extra_in_target">>

\* ---------------------------------------------------------------------- state
VARIABLES
    source_tree,         \* the tree below source_path
    target_tree,         \* the tree below target_path
    before,              \* both trees as they were when the run began
    action,              \* --action: "none", "move" or "delete"
    destination_folder,  \* --dest ("" when not given)
    check_content,       \* --check-content
    pc,                  \* position in compare_folders / handle_unpaired_files
    source_files,        \* get_files_info(source_path)
    target_files,        \* get_files_info(target_path)
    missing_files,
    extra_files,
    common_files,
    content_mismatches,
    table,               \* rows added to the results table
    todo,                \* paths the running for loop has not reached yet
    attempted,           \* <<root, path>> whose move / unlink was called
    failed,              \* <<root, path>> whose move / unlink raised
    confirm,             \* "unasked", "yes" or "no": Confirm.ask
    outcome,             \* how the run ended ("" until it has)
    unreadable,          \* files of the source tree that open() refuses
    scan_todo,           \* entries rglob listed that the scan has not visited
    file_path,           \* the entry the scan is at (<<>> between entries)
    size,                \* line 63: st_size of file_path
    files_info,          \* the mapping get_files_info is filling
    disturbed,           \* entries removed or locked while the scan ran
    previous             \* how the run before this one ended ("none" in the first)

vars ==
    <<source_tree, target_tree, before, action, destination_folder, check_content,
      pc, source_files, target_files, missing_files, extra_files, common_files,
      content_mismatches, table, todo, attempted, failed, confirm, outcome,
      unreadable, scan_todo, file_path, size, files_info, disturbed, previous>>

trees == <<source_tree, target_tree>>
inputs == <<before, action, destination_folder, check_content, previous>>
snapshots == <<source_files, target_files>>
result == <<missing_files, extra_files, common_files, content_mismatches>>
progress == <<todo, attempted, failed, confirm, outcome>>
scanner == <<unreadable, scan_todo, file_path, size, files_info, disturbed>>

\* ----------------------------------------------------------------------- Init
Roots == {"s", "t"}
Slots == Roots \X UserPaths

\* The files of one root among the chosen slots, with their contents.
FilesAt(root, chosen, content) ==
    [p \in {q \in UserPaths : <<root, q>> \in chosen} |-> content[<<root, p>>]]

\* The command lines: --dest only matters to "move".
CommandLines ==
    {<<"none", "">>, <<"delete", "">>, <<"move", "">>, <<"move", DestArg>>}

InitRun ==
    /\ pc = "start"
    /\ source_files = EmptyFiles
    /\ target_files = EmptyFiles
    /\ missing_files = {}
    /\ extra_files = {}
    /\ common_files = {}
    /\ content_mismatches = {}
    /\ table = <<>>
    /\ todo = {}
    /\ attempted = {}
    /\ failed = {}
    /\ confirm = "unasked"
    /\ outcome = ""
    /\ unreadable = {}
    /\ scan_todo = {}
    /\ file_path = <<>>
    /\ size = 0
    /\ files_info = EmptyFiles
    /\ disturbed = {}
    /\ previous = "none"
    /\ before = [s |-> source_tree, t |-> target_tree]

Init ==
    /\ \E chosen \in {c \in SUBSET Slots : Cardinality(c) <= MaxFiles} :
         \E content \in [chosen -> SmallContents] :
            /\ source_tree = TreeOf(FilesAt("s", chosen, content))
            /\ target_tree = TreeOf(FilesAt("t", chosen, content))
    /\ \E cl \in CommandLines :
         /\ action = cl[1]
         /\ destination_folder = cl[2]
    /\ check_content \in BOOLEAN
    /\ InitRun

\* ------------------------------------------------------------ compare_folders
\* lines 163-178: both roots exist; "move" without --dest asks for a name.
Begin ==
    /\ pc = "start"
    /\ IF action = "move" /\ destination_folder = ""
       THEN \E answer \in PromptAnswers : destination_folder' = answer
       ELSE UNCHANGED destination_folder
    /\ pc' = "scan_source"
    /\ UNCHANGED <<scanner, trees, before, action, check_content, previous, snapshots, result,
                   table, progress>>

\* lines 186-188
ScanSource ==
    /\ pc = "scan_source"
    /\ source_files' = get_files_info(source_tree)
    /\ pc' = "scan_target"
    /\ UNCHANGED <<scanner, trees, inputs, target_files, result, table, progress>>

\* lines 190-192
ScanTarget ==
    /\ pc = "scan_target"
    /\ target_files' = get_files_info(target_tree)
    /\ pc' = "reconcile"
    /\ UNCHANGED <<scanner, trees, inputs, source_files, result, table, progress>>

\* lines 194-208
Reconcile ==
    /\ pc = "reconcile"
    /\ missing_files' = missing_of(source_files, target_files)
    /\ extra_files' = extra_of(source_files, target_files)
    /\ common_files' = common_of(source_files, target_files)
    /\ content_mismatches' = mismatches_of(source_files, target_files, check_content)
    /\ pc' = "render"
    /\ UNCHANGED <<scanner, trees, inputs, snapshots, table, progress>>

\* lines 210-245
Render ==
    /\ pc = "render"
    /\ table' = render(missing_files, extra_files, content_mismatches, check_content)
    /\ pc' = "dispatch"
    /\ UNCHANGED <<scanner, trees, inputs, snapshots, result, progress>>

Dispatch_whenever_an_action ==
    /\ pc = "dispatch"
    /\ pc' = IF action # "none" THEN "handle" ELSE "done"
    /\ UNCHANGED <<scanner, trees, inputs, snapshots, result, table, progress>>

\* lines 247-256
Dispatch ==
    /\ pc = "dispatch"
    /\ pc' = IF (missing_files # {} \/ extra_files # {}) /\ action # "none"
             THEN "handle"
             ELSE "done"
    /\ UNCHANGED <<scanner, trees, inputs, snapshots, result, table, progress>>

\* ------------------------------------------------------ handle_unpaired_files
HandleEntry_no_destination_check ==
    /\ pc = "handle"
    /\ IF action = "none"
       THEN pc' = "done" /\ outcome' = "nothing"
       ELSE IF action = "move"
       THEN pc' = "mkdir_source" /\ UNCHANGED outcome
       ELSE pc' = "confirm" /\ UNCHANGED outcome
    /\ UNCHANGED <<scanner, trees, inputs, snapshots, result, table, todo, attempted, failed, confirm>>

\* lines 78-86 and 117: the early returns, then the branch on the action.
HandleEntry ==
    /\ pc = "handle"
    /\ IF action = "none"
       THEN pc' = "done" /\ outcome' = "nothing"
       ELSE IF action = "move" /\ destination_folder = ""
       THEN pc' = "done" /\ outcome' = "destination_required"
       ELSE IF action = "move"
       THEN pc' = "mkdir_source" /\ UNCHANGED outcome
       ELSE pc' = "confirm" /\ UNCHANGED outcome
    /\ UNCHANGED <<scanner, trees, inputs, snapshots, result, table, todo, attempted, failed, confirm>>

\* lines 142-144: any exception of the body ends the call.
Raise ==
    /\ pc' = "done"
    /\ outcome' = "raised"

\* line 91
MkdirSource ==
    /\ pc = "mkdir_source"
    /\ ~mkdir_raises(source_tree, source_unpaired_dir(destination_folder))
    /\ source_tree' = mkdir_parents(source_tree, source_unpaired_dir(destination_folder))
    /\ pc' = "mkdir_target"
    /\ UNCHANGED <<scanner, target_tree, inputs, snapshots, result, table, progress>>

\* line 91 raising (no permission, a file in the way)
MkdirSourceRaises ==
    /\ pc = "mkdir_source"
    /\ Raise
    /\ UNCHANGED <<scanner, trees, inputs, snapshots, result, table, todo, attempted, failed, confirm>>

\* line 92, then the first loop begins (line 98)
MkdirTarget ==
    /\ pc = "mkdir_target"
    /\ ~mkdir_raises(target_tree, target_unpaired_dir(destination_folder))
    /\ target_tree' = mkdir_parents(target_tree, target_unpaired_dir(destination_folder))
    /\ pc' = "move_missing"
    /\ todo' = missing_files
    /\ UNCHANGED <<scanner, source_tree, inputs, snapshots, result, table, attempted, failed, confirm, outcome>>

\* line 92 raising
MkdirTargetRaises ==
    /\ pc = "mkdir_target"
    /\ Raise
    /\ UNCHANGED <<scanner, trees, inputs, snapshots, result, table, todo, attempted, failed, confirm>>

\* lines 98-104, one iteration (a set is iterated in no particular order)
MoveMissing ==
    /\ pc = "move_missing"
    /\ \E f \in todo :
         LET dst == Join(source_unpaired_dir(destination_folder), Name(f))
         IN /\ IF Exists(source_tree, f)
               THEN /\ ~move_raises(source_tree, f, dst)
                    /\ source_tree' = shutil_move(source_tree, f, dst)
                    /\ attempted' = attempted \cup {<<"s", f>>}
               ELSE UNCHANGED <<source_tree, attempted>>
            /\ todo' = todo \ {f}
    /\ UNCHANGED <<scanner, target_tree, inputs, snapshots, result, table, failed, confirm, outcome, pc>>

\* line 102 raising
MoveMissingRaises ==
    /\ pc = "move_missing"
    /\ \E f \in todo :
         /\ Exists(source_tree, f)
         /\ attempted' = attempted \cup {<<"s", f>>}
         /\ failed' = failed \cup {<<"s", f>>}
    /\ Raise
    /\ UNCHANGED <<scanner, trees, inputs, snapshots, result, table, todo, confirm>>

\* line 107: the first loop is over, the second begins
MoveMissingEnd ==
    /\ pc = "move_missing"
    /\ todo = {}
    /\ pc' = "move_extra"
    /\ todo' = extra_files
    /\ UNCHANGED <<scanner, trees, inputs, snapshots, result, table, attempted, failed, confirm, outcome>>

\* lines 107-113, one iteration
MoveExtra ==
    /\ pc = "move_extra"
    /\ \E f \in todo :
         LET dst == Join(target_unpaired_dir(destination_folder), Name(f))
         IN /\ IF Exists(target_tree, f)
               THEN /\ ~move_raises(target_tree, f, dst)
                    /\ target_tree' = shutil_move(target_tree, f, dst)
                    /\ attempted' = attempted \cup {<<"t", f>>}
               ELSE UNCHANGED <<target_tree, attempted>>
            /\ todo' = todo \ {f}
    /\ UNCHANGED <<scanner, source_tree, inputs, snapshots, result, table, failed, confirm, outcome, pc>>

\* line 111 raising
MoveExtraRaises ==
    /\ pc = "move_extra"
    /\ \E f \in todo :
         /\ Exists(target_tree, f)
         /\ attempted' = attempted \cup {<<"t", f>>}
         /\ failed' = failed \cup {<<"t", f>>}
    /\ Raise
    /\ UNCHANGED <<scanner, trees, inputs, snapshots, result, table, todo, confirm>>

\* line 115
MoveExtraEnd ==
    /\ pc = "move_extra"
    /\ todo = {}
    /\ pc' = "done"
    /\ outcome' = "moved"
    /\ UNCHANGED <<scanner, trees, inputs, snapshots, result, table, todo, attempted, failed, confirm>>

ConfirmAsk_answer_ignored ==
    /\ pc = "confirm"
    /\ \E answer \in BOOLEAN :
         /\ confirm' = IF answer THEN "yes" ELSE "no"
         /\ pc' = "delete_missing"
         /\ todo' = missing_files
         /\ UNCHANGED outcome
    /\ UNCHANGED <<scanner, trees, inputs, snapshots, result, table, attempted, failed>>

\* lines 118-119: Confirm.ask; a refusal returns at once
ConfirmAsk ==
    /\ pc = "confirm"
    /\ \E answer \in BOOLEAN :
         /\ confirm' = IF answer THEN "yes" ELSE "no"
         /\ pc' = IF answer THEN "delete_missing" ELSE "done"
         /\ todo' = IF answer THEN missing_files ELSE todo
         /\ outcome' = IF answer THEN outcome ELSE "declined"
    /\ UNCHANGED <<scanner, trees, inputs, snapshots, result, table, attempted, failed>>

\* lines 125-130, one iteration
DeleteMissing ==
    /\ pc = "delete_missing"
    /\ \E f \in todo :
         /\ IF Exists(source_tree, f)
            THEN /\ ~unlink_raises(source_tree, f)
                 /\ source_tree' = unlink(source_tree, f)
                 /\ attempted' = attempted \cup {<<"s", f>>}
            ELSE UNCHANGED <<source_tree, attempted>>
         /\ todo' = todo \ {f}
    /\ UNCHANGED <<scanner, target_tree, inputs, snapshots, result, table, failed, confirm, outcome, pc>>

\* line 128 raising
DeleteMissingRaises ==
    /\ pc = "delete_missing"
    /\ \E f \in todo :
         /\ Exists(source_tree, f)
         /\ attempted' = attempted \cup {<<"s", f>>}
         /\ failed' = failed \cup {<<"s", f>>}
    /\ Raise
    /\ UNCHANGED <<scanner, trees, inputs, snapshots, result, table, todo, confirm>>

DeleteMissingEnd_every_target_file ==
    /\ pc = "delete_missing"
    /\ todo = {}
    /\ pc' = "delete_extra"
    /\ todo' = DOMAIN target_files
    /\ UNCHANGED <<scanner, trees, inputs, snapshots, result, table, attempted, failed, confirm, outcome>>

\* line 133: the first loop is over, the second begins
DeleteMissingEnd ==
    /\ pc = "delete_missing"
    /\ todo = {}
    /\ pc' = "delete_extra"
    /\ todo' = extra_files
    /\ UNCHANGED <<scanner, trees, inputs, snapshots, result, table, attempted, failed, confirm, outcome>>

\* lines 133-138, one iteration
DeleteExtra ==
    /\ pc = "delete_extra"
    /\ \E f \in todo :
         /\ IF Exists(target_tree, f)
            THEN /\ ~unlink_raises(target_tree, f)
                 /\ target_tree' = unlink(target_tree, f)
                 /\ attempted' = attempted \cup {<<"t", f>>}
            ELSE UNCHANGED <<target_tree, attempted>>
         /\ todo' = todo \ {f}
    /\ UNCHANGED <<scanner, source_tree, inputs, snapshots, result, table, failed, confirm, outcome, pc>>

\* line 136 raising
DeleteExtraRaises ==
    /\ pc = "delete_extra"
    /\ \E f \in todo :
         /\ Exists(target_tree, f)
         /\ attempted' = attempted \cup {<<"t", f>>}
         /\ failed' = failed \cup {<<"t", f>>}
    /\ Raise
    /\ UNCHANGED <<scanner, trees, inputs, snapshots, result, table, todo, confirm>>

\* line 140
DeleteExtraEnd ==
    /\ pc = "delete_extra"
    /\ todo = {}
    /\ pc' = "done"
    /\ outcome' = "deleted"
    /\ UNCHANGED <<scanner, trees, inputs, snapshots, result, table, todo, attempted, failed, confirm>>

\* ------------------------------------- get_files_info, statement by statement
\* The scan of the source root while another process removes files or takes
\* their read permission away.
MaxDisturbed == 1

ScanPcs == {"scan_next", "scan_stat", "hash_is_file", "hash_stat", "hash_open"}

\* lines 258-260: an exception of the scan ends compare_folders.
ScanRaises ==
    /\ pc' = "done"
    /\ outcome' = "error"

\* line 60: rglob lists the entries below the root.
ScanList ==
    /\ pc = "scan_source"
    /\ scan_todo' = DOMAIN source_tree.files \cup source_tree.dirs
    /\ files_info' = EmptyFiles
    /\ pc' = "scan_next"
    /\ UNCHANGED <<trees, inputs, snapshots, result, table, progress,
                   unreadable, file_path, size, disturbed>>

\* lines 60-61: the next entry; is_file() is false for a directory and for an
\* entry that is gone.
ScanNext ==
    /\ pc = "scan_next"
    /\ \E entry \in scan_todo :
         /\ scan_todo' = scan_todo \ {entry}
         /\ IF IsFile(source_tree, entry)
            THEN file_path' = entry /\ pc' = "scan_stat"
            ELSE UNCHANGED <<file_path, pc>>
    /\ UNCHANGED <<trees, inputs, snapshots, result, table, progress,
                   unreadable, size, files_info, disturbed>>

\* lines 62-63: stat() raises on a file that is gone.
ScanStat ==
    /\ pc = "scan_stat"
    /\ IF IsFile(source_tree, file_path)
       THEN /\ size' = Len(source_tree.files[file_path])
            /\ pc' = "hash_is_file"
            /\ UNCHANGED outcome
       ELSE ScanRaises /\ UNCHANGED size
    /\ UNCHANGED <<trees, inputs, snapshots, result, table, todo, attempted, failed, confirm,
                   unreadable, scan_todo, file_path, files_info, disturbed>>

\* lines 37-38 and 65: a path that is no file hashes to "", and is recorded.
HashIsFile ==
    /\ pc = "hash_is_file"
    /\ IF IsFile(source_tree, file_path)
       THEN pc' = "hash_stat" /\ UNCHANGED files_info
       ELSE /\ files_info' = (file_path :> <<size, NoHash>>) @@ files_info
            /\ pc' = "scan_next"
    /\ UNCHANGED <<trees, inputs, snapshots, result, table, progress,
                   unreadable, scan_todo, file_path, size, disturbed>>

\* line 41: stat() again
HashStat ==
    /\ pc = "hash_stat"
    /\ IF IsFile(source_tree, file_path)
       THEN pc' = "hash_open" /\ UNCHANGED outcome
       ELSE ScanRaises
    /\ UNCHANGED <<trees, inputs, snapshots, result, table, todo, attempted, failed, confirm, scanner>>

\* lines 43-54 and 65: open() raises on a file that is gone or unreadable;
\* otherwise the chunks are read and the entry is recorded.
HashOpen ==
    /\ pc = "hash_open"
    /\ IF IsFile(source_tree, file_path) /\ file_path \notin unreadable
       THEN /\ files_info' =
                 (file_path :> <<size, quick_hash(source_tree.files[file_path])>>) @@ files_info
            /\ pc' = "scan_next"
            /\ UNCHANGED outcome
       ELSE ScanRaises /\ UNCHANGED files_info
    /\ UNCHANGED <<trees, inputs, snapshots, result, table, todo, attempted, failed, confirm,
                   unreadable, scan_todo, file_path, size, disturbed>>

\* lines 67 and 187-188: every entry was visited
ScanReturn ==
    /\ pc = "scan_next"
    /\ scan_todo = {}
    /\ source_files' = files_info
    /\ pc' = "scan_target"
    /\ UNCHANGED <<trees, inputs, target_files, result, table, progress, scanner>>

\* Another process removes a file of the source tree during the scan.
Vanish ==
    /\ pc \in ScanPcs
    /\ Cardinality(disturbed) < MaxDisturbed
    /\ \E p \in DOMAIN source_tree.files :
         /\ source_tree' = unlink(source_tree, p)
         /\ disturbed' = disturbed \cup {p}
    /\ UNCHANGED <<target_tree, inputs, snapshots, result, table, progress, pc,
                   unreadable, scan_todo, file_path, size, files_info>>

\* Another process takes the read permission of a file away during the scan.
Lock ==
    /\ pc \in ScanPcs
    /\ Cardinality(disturbed) < MaxDisturbed
    /\ \E p \in DOMAIN source_tree.files :
         /\ unreadable' = unreadable \cup {p}
         /\ disturbed' = disturbed \cup {p}
    /\ UNCHANGED <<trees, inputs, snapshots, result, table, progress, pc,
                   scan_todo, file_path, size, files_info>>

\* lines 262-263: the same delete command is run once more on the trees the
\* first run left.
Rerun ==
    /\ pc = "done"
    /\ action = "delete"
    /\ previous = "none"
    /\ previous' = IF outcome = "" THEN "nothing_to_do" ELSE outcome
    /\ before' = [s |-> source_tree, t |-> target_tree]
    /\ pc' = "start"
    /\ source_files' = EmptyFiles
    /\ target_files' = EmptyFiles
    /\ missing_files' = {}
    /\ extra_files' = {}
    /\ common_files' = {}
    /\ content_mismatches' = {}
    /\ table' = <<>>
    /\ todo' = {}
    /\ attempted' = {}
    /\ failed' = {}
    /\ confirm' = "unasked"
    /\ outcome' = ""
    /\ UNCHANGED <<scanner, trees, action, destination_folder, check_content>>

\* --------------------------------------------------------------- specification
Next ==
    \/ Begin
    \/ ScanSource
    \/ ScanTarget
    \/ Reconcile
    \/ Render
    \/ Dispatch
    \/ HandleEntry
    \/ MkdirSource
    \/ MkdirSourceRaises
    \/ MkdirTarget
    \/ MkdirTargetRaises
    \/ MoveMissing
    \/ MoveMissingRaises
    \/ MoveMissingEnd
    \/ MoveExtra
    \/ MoveExtraRaises
    \/ MoveExtraEnd
    \/ ConfirmAsk
    \/ DeleteMissing
    \/ DeleteMissingRaises
    \/ DeleteMissingEnd
    \/ DeleteExtra
    \/ DeleteExtraRaises
    \/ DeleteExtraEnd
    \/ Rerun

Spec == Init /\ [][Next]_vars

\* The comparison alone, over every content up to MaxFileLen: x may be in
\* either tree with any content, d/x and arch/x in either tree as empty files.
FileOrNone(p, contents) == {EmptyFiles} \cup {(p :> c) : c \in contents}

InitReconcile ==
    /\ \E sx \in FileOrNone(<<"x">>, Contents), tx \in FileOrNone(<<"x">>, Contents),
          sd \in FileOrNone(<<"d", "x">>, {<<>>}), td \in FileOrNone(<<"d", "x">>, {<<>>}),
          sa \in FileOrNone(<<DestArg, "x">>, {<<>>}), ta \in FileOrNone(<<DestArg, "x">>, {<<>>}) :
         /\ source_tree = TreeOf(sx @@ sd @@ sa)
         /\ target_tree = TreeOf(tx @@ td @@ ta)
    /\ action = "none"
    /\ destination_folder = ""
    /\ check_content \in BOOLEAN
    /\ InitRun

NextReconcile ==
    \/ Begin
    \/ ScanSource
    \/ ScanTarget
    \/ Reconcile
    \/ Render
    \/ Dispatch

SpecReconcile == InitReconcile /\ [][NextReconcile]_vars

\* The comparison with the source tree changing under the scan.
InitScan ==
    /\ Init
    /\ action = "none"
    /\ ~check_content

NextScan ==
    \/ Begin
    \/ ScanList
    \/ ScanNext
    \/ ScanStat
    \/ HashIsFile
    \/ HashStat
    \/ HashOpen
    \/ ScanReturn
    \/ Vanish
    \/ Lock
    \/ ScanTarget
    \/ Reconcile
    \/ Render
    \/ Dispatch

SpecScan == InitScan /\ [][NextScan]_vars

\* --------------------------------------------------------------------- claims
Reconciled == pc \notin {"start", "scan_source", "scan_target", "reconcile"}
TreesAsBefore == source_tree = before.s /\ target_tree = before.t

\* C1 (as claimed): once a move or delete of one file has failed, the move or
\* delete of every other unpaired file has still been attempted by the time
\* handle_unpaired_files returns.
C1_SiblingsStillAttempted ==
    (pc = "done" /\ failed # {}) =>
        /\ \A p \in missing_files : <<"s", p>> \in attempted
        /\ \A p \in extra_files : <<"t", p>> \in attempted

\* C2: with action delete, both trees are exactly as they were before the call
\* unless Confirm.ask has been called and answered yes; in particular a
\* refusal ends the call with nothing deleted.
C2_DeleteNeedsConfirmation ==
    (action = "delete" /\ confirm # "yes") => TreesAsBefore

C2_Witness_Refused ==
    /\ action = "delete"
    /\ confirm = "no"
    /\ pc = "done"
    /\ missing_files # {}
    /\ extra_files # {}

C4_ScanSkipsDisturbedEntry ==
    /\ outcome # "error"
    /\ pc \in {"scan_target", "reconcile", "render", "dispatch", "done"} =>
          \A p \in DOMAIN before.s.files : p \notin disturbed => p \in DOMAIN source_files

C6_EmptyDestinationTouchesNothing ==
    (action = "move" /\ destination_folder = "") =>
        /\ TreesAsBefore
        /\ pc \in {"start", "scan_source", "scan_target", "reconcile", "render",
                   "dispatch", "handle", "done"}
        /\ (pc = "done" /\ (missing_files # {} \/ extra_files # {}))
              => outcome = "destination_required"

C6_Witness_Refused ==
    /\ action = "move"
    /\ destination_folder = ""
    /\ pc = "done"
    /\ outcome = "destination_required"
    /\ missing_files # {}

C8_ReconciliationSets ==
    Reconciled =>
        LET src == DOMAIN source_tree.files
            tgt == DOMAIN target_tree.files
        IN /\ missing_files = {p \in src : p \notin tgt}
           /\ extra_files = {p \in tgt : p \notin src}
           /\ missing_files \cap extra_files = {}
           /\ missing_files \cap common_files = {}
           /\ extra_files \cap common_files = {}
           /\ content_mismatches \subseteq {p \in src : p \in tgt}
           /\ ~check_content => content_mismatches = {}

C8_Witness_UncheckedDifference ==
    /\ Reconciled
    /\ ~check_content
    /\ missing_files # {}
    /\ extra_files # {}
    /\ \E p \in common_files : source_files[p] # target_files[p]

\* C9: with contents checked, a common path whose two files differ in size is
\* in the mismatches, also when their quick hashes are equal.
C9_SizeDifferenceIsMismatch ==
    (Reconciled /\ check_content) =>
        \A p \in DOMAIN source_tree.files \cap DOMAIN target_tree.files :
            Len(source_tree.files[p]) # Len(target_tree.files[p])
                => p \in content_mismatches

C9_Witness_SameHashOtherSize ==
    /\ Reconciled
    /\ check_content
    /\ \E p \in common_files :
          /\ Len(source_tree.files[p]) # Len(target_tree.files[p])
          /\ quick_hash(source_tree.files[p]) = quick_hash(target_tree.files[p])
          /\ p \in content_mismatches

\* C10: the missing set of a comparison is the extra set of the comparison of
\* the same two directories with source and target swapped.
C10_SwapSymmetry ==
    Reconciled =>
        missing_files = extra_of(get_files_info(target_tree), get_files_info(source_tree))

C10_Witness_MissingAndCommon ==
    /\ Reconciled
    /\ missing_files # {}
    /\ common_files # {}

\* The count of matched paths: the common paths less the mismatched ones.
matched_count == Cardinality(common_files) - Cardinality(content_mismatches)

\* C11: comparing a directory with itself, contents checked, gives no missing,
\* no extra and no mismatched path, and as many matched paths as the
\* directory has regular files.
C11_SelfComparisonIsClean ==
    (Reconciled /\ check_content /\ source_tree = target_tree) =>
        /\ missing_files = {}
        /\ extra_files = {}
        /\ content_mismatches = {}
        /\ matched_count = Cardinality(DOMAIN source_tree.files)

C11_Witness_SeveralFiles ==
    /\ Reconciled
    /\ check_content
    /\ source_tree = target_tree
    /\ Cardinality(DOMAIN source_tree.files) >= 2
    /\ \E p \in DOMAIN source_tree.files : Len(source_tree.files[p]) > chunk_size

\* C12: the table holds exactly one row for each non-empty category (the
\* mismatches only when contents are checked), each with its paths in
\* ascending order and their number; the status row is there exactly when
\* every category is empty, and then it is the only row.
Rendered == pc \in {"dispatch", "handle", "done"} /\ outcome # "error"
RowsOf(label) == {i \in 1..Len(table) : table[i][1] = label}
Ascending(q) == \A i, j \in 1..Len(q) : i < j => PathLess(q[i], q[j])
CategoryRow(label, paths, shown) ==
    /\ Cardinality(RowsOf(label)) = (IF shown /\ paths # {} THEN 1 ELSE 0)
    /\ \A i \in RowsOf(label) :
          /\ {table[i][2][k] : k \in 1..Len(table[i][2])} = paths
          /\ Len(table[i][2]) = Cardinality(paths)
          /\ Ascending(table[i][2])
          /\ table[i][3] = Cardinality(paths)

C12_OneRowPerCategory ==
    Rendered =>
        /\ CategoryRow("Missing in Target", missing_files, TRUE)
        /\ CategoryRow("Extra in Target", extra_files, TRUE)
        /\ CategoryRow("Content Mismatches", content_mismatches, check_content)
        /\ Cardinality(RowsOf("Status")) <= 1
        /\ RowsOf("Status") # {} <=>
              (missing_files = {} /\ extra_files = {} /\ content_mismatches = {})
        /\ RowsOf("Status") # {} => Len(table) = 1
        /\ \A i \in 1..Len(table) :
              table[i][1] \in {"Missing in Target", "Extra in Target",
                               "Content Mismatches", "Status"}

C12_Witness_TwoRowsSeveralPaths ==
    /\ Rendered
    /\ check_content
    /\ Cardinality(missing_files) >= 2
    /\ content_mismatches # {}
    /\ Len(table) = 2

\* The file at p is the one that was there when the run began.
Intact(tree, old, p) == IsFile(tree, p) /\ tree.files[p] = old.files[p]

\* A moved file of this name lands on p.
MoveLandsOn(dir, moved, p) == \E q \in moved : p = Join(dir, Name(q))

====
